---- MODULE Spec2Model ----
(***************************************************************************)
(* The Zoom webhook service of src/main.py: the POST /webhook handler      *)
(* zoom_webhook, the in-memory set PROCESSING_MEETING_IDS, and the         *)
(* background pipeline process_transcript_task with its Drive lookup and   *)
(* upload.  One event loop runs handlers and background tasks; a handler   *)
(* suspends only at `await request.json()`, a background task never        *)
(* suspends (every call it makes is a blocking call).                      *)
(*                                                                         *)
(* Strings are sequences of one-character strings, so that the f-string    *)
(* concatenations and the Drive `name contains` test are computed.         *)
(***************************************************************************)
EXTENDS Integers, Sequences, FiniteSets, Bags, TLC

\* ------------------------------------------------------------- bounds
\* requests whose body is being awaited at the same time
MaxInflight == 2
\* background tasks enqueued and not yet finished
MaxPending == 2
\* files in the destination Drive folder
MaxFiles == 2

\* ------------------------------------------------------ Python values
\* Python's None, as a value no string is equal to
None == <<"<None>">>

\* truth value of a str-or-None, as `if entity_id:` and `not entity_id` take it
Truthy(v) == v # None /\ v # <<>>

\* str(v) inside an f-string
Str(v) == IF v = None THEN <<"N", "o", "n", "e">> ELSE v

\* `sub in s` for strings
Contains(s, sub) ==
    \E i \in 0..(Len(s) - Len(sub)) : SubSeq(s, i + 1, i + Len(sub)) = sub

\* s.replace(old, new) for a one-character old and new
ReplaceChar(s, old, new) == [i \in 1..Len(s) |-> IF s[i] = old THEN new ELSE s[i]]

\* ---------------------------------------------------------- inputs
\* the uuid of payload.object: absent, empty, or one of two meeting uuids
UuidVals == {None, <<>>, <<"x">>, <<"y">>}

\* plainToken values of a handshake (absent reads as "")
Tokens == {<<>>, <<"h">>}

\* payload.object.type values: a meeting, a webinar, a type the code does not know
MeetingTypes == {2, 5, 7}

\* payload.object.host_email values (one address; the task alone reads it)
Emails == {<<"j", ".", "d", "@", "z">>}

\* framework_analysis lengths the AI may answer with (0: field omitted)
EntryCounts == {0, 14, 15, 16}

\* patient_name the AI answers with
PatientNames == {<<"P", " ", "Q", "!">>}

EV_VALIDATION == "endpoint.url_validation"
EV_TRANSCRIPT == "recording.transcript_completed"
EV_OTHER == "meeting.ended"
EV_MISSING == "<no event>"

\* A request body as the handler sees it.  kind "invalid_json": request.json()
\* raises; "non_dict": the body or its payload is no JSON object, so .get raises.
\* has_transcript: payload.object.recording_files holds a TRANSCRIPT file.
Body(kind, event, uuid, token, has_transcript) ==
    [kind |-> kind, event |-> event, uuid |-> uuid, plainToken |-> token,
     has_transcript |-> has_transcript]

Bodies ==
    {Body("invalid_json", EV_MISSING, None, <<>>, FALSE),
     Body("non_dict", EV_MISSING, None, <<>>, FALSE),
     Body("object", EV_OTHER, None, <<>>, FALSE),
     Body("object", EV_MISSING, None, <<>>, FALSE)}
    \cup {Body("object", EV_VALIDATION, None, t, FALSE) : t \in Tokens}
    \cup {Body("object", EV_TRANSCRIPT, u, <<>>, h) : u \in UuidVals, h \in BOOLEAN}

NoBody == Body("none", EV_MISSING, None, <<>>, FALSE)

\* ------------------------------------------------------------ state
VARIABLES
    PROCESSING_MEETING_IDS,  \* the module-level set of main.py
    inflight,                \* handlers suspended in `await request.json()`
    bg,                      \* background tasks enqueued and not finished, in enqueue order
    running,                 \* index in bg of the task holding the event loop, 0 if none
    drive,                   \* the destination folder: a bag of file names
    resp,                    \* the last HTTP response returned, with its request
    escaped,                 \* history: an exception left process_transcript_task
    config_secret,           \* the environment's ZOOM_SECRET_TOKEN, config["ZOOM_SECRET_TOKEN"] once loaded
    proc,                    \* the process: "starting" (lines 30-34), "serving", "exited"
    txt,                     \* src/Main.py: the transcript review_consult works on
    review                   \* src/Main.py: what review_consult computed from txt

config_vars == <<config_secret, proc>>
review_vars == <<txt, review>>

vars == <<PROCESSING_MEETING_IDS, inflight, bg, running, drive, resp, escaped,
          config_vars, review_vars>>


\* ------------------------------------------------------ configuration
\* the ZOOM_SECRET_TOKEN of a configured deployment
ZOOM_SECRET_TOKEN == <<"s">>

\* values os.getenv("ZOOM_SECRET_TOKEN") may return: unset, empty, set
SecretEnvs == {None, <<>>, ZOOM_SECRET_TOKEN}

\* mutant of ConfigLoads: the test is `value is None`
ConfigLoads_NoneOnly(value) == value # None

\* lines 25-26: `if not value: raise ValueError`
ConfigLoads(value) == Truthy(value)

\* hmac.new(key, msg, hashlib.sha256).hexdigest(), as a symbolic term: equal
\* exactly when key and message are equal
HmacSha256Hex(key, msg) == <<"hmac-sha256-hex", key, msg>>

\* ---------------------------------------------------------- responses
JSONResponse(status, key, val) ==
    [status |-> status, key |-> key, val |-> val,
     plainToken |-> <<>>, encryptedToken |-> <<>>]

\* mutant of HandshakeResponse: key and message change places
HandshakeResponse_Swapped(plain_token) ==
    [status |-> 200, key |-> "handshake", val |-> "",
     plainToken |-> plain_token,
     encryptedToken |-> HmacSha256Hex(plain_token, config_secret)]

\* the handshake answer of lines 282-284
HandshakeResponse(plain_token) ==
    [status |-> 200, key |-> "handshake", val |-> "",
     plainToken |-> plain_token,
     encryptedToken |-> HmacSha256Hex(config_secret, plain_token)]

\* an exception leaving the handler: the framework answers 500
ServerError == JSONResponse(500, "error", "Internal Server Error")

AlreadyProcessing == JSONResponse(200, "status", "already_processing")
ProcessingStarted == JSONResponse(202, "status", "processing_started")
EventIgnored == JSONResponse(200, "message", "Event ignored")

NoResponse == [req |-> NoBody, res |-> JSONResponse(0, "", "")]

\* no process listens: the client's connection is refused, no HTTP answer
ConnectionRefused == JSONResponse(0, "", "connection refused")

\* ------------------------------------------------------ zoom_webhook
\* mutant of IsDuplicate: the membership test is lost
IsDuplicate_Never(entity_id, ids) == FALSE

\* line 288: entity_id in PROCESSING_MEETING_IDS
IsDuplicate(entity_id, ids) == entity_id \in ids

\* mutant of AddId: the add is lost
AddId_Forget(ids, entity_id) == ids

\* lines 292-293: if entity_id: PROCESSING_MEETING_IDS.add(entity_id)
AddId(ids, entity_id) == IF Truthy(entity_id) THEN ids \cup {entity_id} ELSE ids

\* mutant of EnqueuedTask: the pipeline is awaited in the handler, so its
\* first call is made before the response is returned
EnqueuedTask_Inline(body) ==
    [body_uuid |-> body.uuid, entity_id |-> body.uuid, pc |-> "classify",
     steps |-> <<"lookup">>, exc |-> "", ret |-> "",
     provider_name |-> <<>>, entries |-> 0, patient_name |-> <<>>,
     lookup |-> ""]

\* line 295: the task as add_task leaves it: not started, its locals unset
EnqueuedTask(body) ==
    [body_uuid |-> body.uuid, entity_id |-> None, pc |-> "pending",
     steps |-> <<>>, exc |-> "", ret |-> "",
     provider_name |-> <<>>, entries |-> 0, patient_name |-> <<>>,
     lookup |-> ""]

\* mutant of Accepts: the event name is not compared
Accepts_AnyEvent(body, ids) ==
    /\ body.kind = "object"
    /\ body.event # EV_VALIDATION
    /\ ~IsDuplicate(body.uuid, ids)

\* the handler reaches add_task (lines 286-295)
Accepts(body, ids) ==
    /\ body.kind = "object"
    /\ body.event = EV_TRANSCRIPT
    /\ ~IsDuplicate(body.uuid, ids)

\* the response the handler returns (lines 278-298)
WebhookResponse(body, ids) ==
    IF body.kind # "object" THEN ServerError
    ELSE IF body.event = EV_VALIDATION THEN HandshakeResponse(body.plainToken)
    ELSE IF body.event = EV_TRANSCRIPT
         THEN IF IsDuplicate(body.uuid, ids) THEN AlreadyProcessing
              ELSE ProcessingStarted
    ELSE EventIgnored

\* a POST /webhook reaches the handler, which suspends in `await request.json()`
request_arrives ==
    /\ proc = "serving"
    /\ running = 0
    /\ inflight < MaxInflight
    /\ inflight' = inflight + 1
    /\ UNCHANGED <<PROCESSING_MEETING_IDS, bg, running, drive, resp, escaped, config_vars, review_vars>>

\* the rest of the handler, lines 279-298, runs without suspending
zoom_webhook(body) ==
    /\ running = 0
    /\ inflight > 0
    /\ inflight' = inflight - 1
    /\ resp' = [req |-> body, res |-> WebhookResponse(body, PROCESSING_MEETING_IDS)]
    /\ IF Accepts(body, PROCESSING_MEETING_IDS)
       THEN /\ Len(bg) < MaxPending
            /\ PROCESSING_MEETING_IDS' = AddId(PROCESSING_MEETING_IDS, body.uuid)
            /\ bg' = Append(bg, EnqueuedTask(body))
       ELSE UNCHANGED <<PROCESSING_MEETING_IDS, bg>>
    /\ UNCHANGED <<running, drive, escaped, config_vars, review_vars>>


\* ------------------------------------------------- text helpers of the task
Letters == {"j", "d", "z", "J", "D", "Z", "P", "Q"}

\* str.upper / str.lower on one character
Upper(c) == CASE c = "j" -> "J" [] c = "d" -> "D" [] c = "z" -> "Z" [] OTHER -> c
Lower(c) == CASE c = "J" -> "j" [] c = "D" -> "d" [] c = "Z" -> "z"
              [] c = "P" -> "p" [] c = "Q" -> "q" [] OTHER -> c

\* str.title(): a letter starts a word when no letter precedes it
Title(s) ==
    [i \in 1..Len(s) |->
        IF i = 1 \/ s[i - 1] \notin Letters THEN Upper(s[i]) ELSE Lower(s[i])]

\* email.split('@')[0]
BeforeAt(email) ==
    LET first == CHOOSE i \in 1..Len(email) :
                    email[i] = "@" /\ \A j \in 1..(i - 1) : email[j] # "@"
    IN  SubSeq(email, 1, first - 1)

\* lines 166-173
format_provider_from_email(email) ==
    IF ~Truthy(email) \/ ~Contains(email, <<"@">>)
    THEN <<"U", "n", "k", "n", "o", "w", "n", "_", "P", "r", "o", "v", "i", "d", "e", "r">>
    ELSE Title(ReplaceChar(BeforeAt(email), ".", " "))

\* \w, \s and "-" of the pattern of line 261
KeptByPattern(c) == c \in Letters \cup {"_", " ", "-"}

\* line 261: re.sub(r"[^\w\s-]", "", name).replace(" ", "_")
Sanitize(name) == ReplaceChar(SelectSeq(name, KeptByPattern), " ", "_")

\* line 262: datetime.now().strftime(...), one instant
Timestamp == <<"0">>

Sep == <<" ", "-", " ">>
Suffix == <<"_", "S", "u", "m", "m", "a", "r", "y", ".", "p", "d", "f">>

\* mutant of Filename: the name ends with the patient, not the uuid
Filename_NoUuid(provider_name, patient_name, entity_id) ==
    Timestamp \o Sep \o ReplaceChar(provider_name, " ", "_") \o Sep
        \o Sanitize(patient_name) \o Suffix

\* line 264
Filename(provider_name, patient_name, entity_id) ==
    Timestamp \o Sep \o ReplaceChar(provider_name, " ", "_") \o Sep
        \o Sanitize(patient_name) \o Sep \o Str(entity_id) \o Suffix

\* the template of lines 84-100 names framework_1 .. framework_15
NeedEntries == 15

\* mutant of TemplateFills: missing fields are left blank
TemplateFills_Lenient(entries) == TRUE

\* line 253: str.format raises KeyError when a named field has no filler
TemplateFills(entries) == entries >= NeedEntries

\* mutant of is_already_processed: a failed lookup counts as "exists"
is_already_processed_FailClosed(meeting_uuid, folder, lookup_ok) ==
    \/ ~lookup_ok
    \/ \E f \in BagToSet(folder) : Contains(f, Str(meeting_uuid))

\* lines 150-164: the Drive query `name contains '<uuid>'`; any failure of the
\* lookup is caught and answered False
is_already_processed(meeting_uuid, folder, lookup_ok) ==
    /\ lookup_ok
    /\ \E f \in BagToSet(folder) : Contains(f, Str(meeting_uuid))

\* lines 200-204: the entity type of a meeting type, "" when unknown
EntityType(meeting_type) ==
    IF meeting_type \in {1, 2, 3, 4, 8} THEN "meetings"
    ELSE IF meeting_type \in {5, 6, 9} THEN "webinars"
    ELSE ""

\* mutant of Caught: the clause names ValueError alone
Caught_OnlyValueError(exc) ==
    exc \in {"ValueError: UUID not found", "ValueError: Transcript file not found"}

\* line 270: `except Exception` catches every exception the pipeline raises
Caught(exc) == TRUE

\* mutant of DiscardId: the removal is lost
DiscardId_Skip(ids, entity_id) == ids

\* lines 273-274
DiscardId(ids, entity_id) ==
    IF Truthy(entity_id) /\ entity_id \in ids THEN ids \ {entity_id} ELSE ids

\* ------------------------------------------- process_transcript_task
Cur == bg[running]
\* mutant of Raise: the failure is noted and the run goes on to upload what
\* it has
Raise_UploadAnyway(t, step, exc) ==
    [t EXCEPT !.pc = "upload", !.exc = exc, !.steps = Append(t.steps, step),
              !.entries = 0]

\* the step raises: control leaves the try body for the except and finally clauses
Raise(t, step, exc) ==
    [t EXCEPT !.pc = "finally", !.exc = exc, !.steps = Append(t.steps, step),
              !.entries = 0]
\* the step succeeds and control reaches the next one
Go(t, step, pc) == [t EXCEPT !.pc = pc, !.steps = Append(t.steps, step)]

\* the event loop starts a task whose response was sent: lines 176-180
task_start(i) ==
    /\ running = 0
    /\ i \in 1..Len(bg)
    /\ bg[i].pc = "pending"
    /\ running' = i
    /\ bg' = [bg EXCEPT ![i].pc = "lookup", ![i].entity_id = bg[i].body_uuid]
    /\ UNCHANGED <<PROCESSING_MEETING_IDS, inflight, drive, resp, escaped, config_vars, review_vars>>

\* mutant of AfterLookup: the `return` is lost
AfterLookup_NoReturn(t, found) ==
    IF found THEN [t EXCEPT !.pc = "classify", !.ret = "already_processed"]
    ELSE [t EXCEPT !.pc = "classify"]

\* lines 182-183: `if is_already_processed(entity_id): return`
AfterLookup(t, found) ==
    IF found THEN [t EXCEPT !.pc = "finally", !.ret = "already_processed"]
    ELSE [t EXCEPT !.pc = "classify"]

\* line 182, the call; `lookup` notes whether the Drive query was answered
\* (lines 152-157) or raised into the except clause of lines 162-164
task_lookup(lookup_ok) ==
    /\ running # 0
    /\ Cur.pc = "lookup"
    /\ bg' = [bg EXCEPT ![running] =
                AfterLookup([Cur EXCEPT !.steps = Append(Cur.steps, "lookup"),
                                        !.lookup = IF lookup_ok THEN "ok" ELSE "failed"],
                            is_already_processed(Cur.entity_id, drive, lookup_ok))]
    /\ UNCHANGED <<PROCESSING_MEETING_IDS, inflight, running, drive, resp, escaped, config_vars, review_vars>>

\* lines 185-211: no external call
task_classify(meeting_type, host_email) ==
    /\ running # 0
    /\ Cur.pc = "classify"
    /\ LET t == [Cur EXCEPT !.provider_name = format_provider_from_email(host_email)]
       IN  bg' = [bg EXCEPT ![running] =
                    IF EntityType(meeting_type) = ""
                    THEN [t EXCEPT !.pc = "finally", !.ret = "unknown_type"]
                    ELSE IF ~Truthy(t.entity_id)
                    THEN [t EXCEPT !.pc = "finally", !.exc = "ValueError: UUID not found"]
                    ELSE [t EXCEPT !.pc = "zoom_token"]]
    /\ UNCHANGED <<PROCESSING_MEETING_IDS, inflight, running, drive, resp, escaped, config_vars, review_vars>>

\* line 213
task_zoom_token(ok) ==
    /\ running # 0
    /\ Cur.pc = "zoom_token"
    /\ bg' = [bg EXCEPT ![running] =
                IF ok THEN Go(Cur, "zoom_token", "recordings")
                ELSE Raise(Cur, "zoom_token", "HTTPError: token")]
    /\ UNCHANGED <<PROCESSING_MEETING_IDS, inflight, running, drive, resp, escaped, config_vars, review_vars>>

\* lines 214-221
task_recordings(ok, has_transcript) ==
    /\ running # 0
    /\ Cur.pc = "recordings"
    /\ bg' = [bg EXCEPT ![running] =
                IF ~ok THEN Raise(Cur, "recordings", "HTTPError: recordings")
                ELSE IF ~has_transcript
                THEN Raise(Cur, "recordings", "ValueError: Transcript file not found")
                ELSE Go(Cur, "recordings", "download")]
    /\ UNCHANGED <<PROCESSING_MEETING_IDS, inflight, running, drive, resp, escaped, config_vars, review_vars>>

\* lines 223-226
task_download(ok) ==
    /\ running # 0
    /\ Cur.pc = "download"
    /\ bg' = [bg EXCEPT ![running] =
                IF ok THEN Go(Cur, "download", "ai")
                ELSE Raise(Cur, "download", "HTTPError: download")]
    /\ UNCHANGED <<PROCESSING_MEETING_IDS, inflight, running, drive, resp, escaped, config_vars, review_vars>>

\* lines 229-238: the call raises, or its content is no JSON, or it parses
task_ai(outcome, entries, patient_name) ==
    /\ running # 0
    /\ Cur.pc = "ai"
    /\ bg' = [bg EXCEPT ![running] =
                IF outcome = "raises" THEN Raise(Cur, "ai", "OpenAIError")
                ELSE IF outcome = "not_json" THEN Raise(Cur, "ai", "JSONDecodeError")
                ELSE [Go(Cur, "ai", "render") EXCEPT !.entries = entries,
                                                     !.patient_name = patient_name]]
    /\ UNCHANGED <<PROCESSING_MEETING_IDS, inflight, running, drive, resp, escaped, config_vars, review_vars>>

\* lines 240-258
task_render(pdf_ok) ==
    /\ running # 0
    /\ Cur.pc = "render"
    /\ bg' = [bg EXCEPT ![running] =
                IF ~TemplateFills(Cur.entries) THEN Raise(Cur, "render", "KeyError")
                ELSE IF ~pdf_ok THEN Raise(Cur, "render", "PDFError")
                ELSE [Go(Cur, "render", "upload") EXCEPT !.entries = 0]]
    /\ UNCHANGED <<PROCESSING_MEETING_IDS, inflight, running, drive, resp, escaped, config_vars, review_vars>>

\* lines 260-268 with upload_to_drive, lines 141-148
task_upload(ok) ==
    /\ running # 0
    /\ Cur.pc = "upload"
    /\ IF ok
       THEN /\ BagCardinality(drive) < MaxFiles
            /\ drive' = drive (+) SetToBag(
                   {Filename(Cur.provider_name, Cur.patient_name, Cur.entity_id)})
            /\ bg' = [bg EXCEPT ![running] =
                        [Go(Cur, "upload", "finally") EXCEPT !.ret = "uploaded"]]
       ELSE /\ drive' = drive
            /\ bg' = [bg EXCEPT ![running] = Raise(Cur, "upload", "HTTPError: upload")]
    /\ UNCHANGED <<PROCESSING_MEETING_IDS, inflight, running, resp, escaped, config_vars, review_vars>>

\* an exception reaches the except clause (lines 270-271), then, as on every
\* return, the finally clause (lines 272-274); the task ends and frees the
\* event loop
task_finally ==
    /\ running # 0
    /\ Cur.pc = "finally"
    /\ PROCESSING_MEETING_IDS' = DiscardId(PROCESSING_MEETING_IDS, Cur.entity_id)
    /\ bg' = SubSeq(bg, 1, running - 1) \o SubSeq(bg, running + 1, Len(bg))
    /\ running' = 0
    /\ escaped' = (escaped \/ (Cur.exc # "" /\ ~Caught(Cur.exc)))
    /\ UNCHANGED <<inflight, drive, resp, config_vars, review_vars>>

\* ------------------------------------------- src/Main.py: review_consult
\* line 21: the transcript, as the characters `text` followed by `pad` more
\* filler words; no transcript in the service of main.py
NoTranscript == [text |-> <<>>, pad |-> 0]
NotReviewed == [done |-> FALSE]

\* transcripts are made of at most MaxChunks sentences
MaxChunks == 3

\* line 22: words a minute, and the minutes a consultation should last
WORDS_PER_MINUTE == 150
MIN_MINUTES == 20

\* sentences of an evaluated consultation; joined by one space
EvalVocab ==
    {<<"G", "o", "a", "l", ":", " ", "s", "u", "p", "p", "l", "e", "m", "e", "n", "t", " ", "d", "a", "i", "l", "y", ".">>,
     <<"V", "e", "r", "i", "f", "y", " ", "y", "o", "u", "r", " ", "p", "h", "o", "n", "e", ".">>,
     <<"v", "e", "r", "i", "f", "y">>,
     <<"a", "d", "d", "r", "e", "s", "s">>,
     <<"\n">>,
     <<"5">>,
     <<"M", "L">>,
     <<"P", "a", "t", "i", "e", "n", "t", ":", " ", "w", "h", "y", "?", "\n", "P", "r", "o", "v", "i", "d", "e", "r", ":", " ", "d", "o", "n", "'", "t", " ", "y", "e", "l", "l">>}

\* lines of a dialogue; joined by a newline
DialogVocab ==
    {<<"P", "a", "t", "i", "e", "n", "t", ":", " ", "w", "h", "y", "?">>,
     <<"P", "r", "o", "v", "i", "d", "e", "r", ":", " ", "W", "h", "y", "?", " ", "o", "k">>,
     <<"P", "r", "o", "v", "i", "d", "e", "r", ":", " ", "o", "k">>,
     <<"p", "a", "t", "i", "e", "n", "t", ":", " ", "H", "O", "W", "?", " ", "e", "h", "?">>,
     <<"p", "r", "o", "v", "i", "d", "e", "r", ":", " ", "h", "o", "w", "?", " ", "e", "h", "?">>,
     <<"P", "a", "t", "i", "e", "n", "t", ":", " ", "o", "k", ".", " ", "P", "r", "o", "v", "i", "d", "e", "r", ":", " ", "s", "o", "?">>}

\* a filler word, with the space that separates it from what precedes it
Filler == <<" ", "u", "m">>

\* filler word counts that bring a short transcript to about 20 minutes
Pads == {0} \cup ((WORDS_PER_MINUTE * MIN_MINUTES - 2)..(WORDS_PER_MINUTE * MIN_MINUTES + 1))

RECURSIVE Join(_, _)
Join(chunks, sep) ==
    IF chunks = <<>> THEN <<>>
    ELSE IF Len(chunks) = 1 THEN chunks[1]
    ELSE chunks[1] \o sep \o Join(Tail(chunks), sep)

ChunkSeqs(vocab, n) == UNION {[1..k -> vocab] : k \in 0..n}

\* res["text"] of line 21
Transcripts ==
    {[text |-> Join(c, <<" ">>), pad |-> p] :
        c \in ChunkSeqs(EvalVocab, MaxChunks - 1), p \in Pads}
    \cup {[text |-> Join(c, <<" ">>), pad |-> 0] : c \in ChunkSeqs(EvalVocab, MaxChunks)}
    \cup {[text |-> Join(c, <<"\n">>), pad |-> 0] : c \in ChunkSeqs(DialogVocab, MaxChunks)}

\* the characters the searches of lines 24-31 run over: every filler word
\* after the first repeats it, and adds no match to any of the patterns
Chars(t) == t.text \o (IF t.pad > 0 THEN Filler ELSE <<>>)

UPPERCASE == <<"A", "B", "C", "D", "E", "F", "G", "H", "I", "J", "K", "L", "M", "N", "O", "P", "Q", "R", "S", "T", "U", "V", "W", "X", "Y", "Z">>
LOWERCASE == <<"a", "b", "c", "d", "e", "f", "g", "h", "i", "j", "k", "l", "m", "n", "o", "p", "q", "r", "s", "t", "u", "v", "w", "x", "y", "z">>

\* re.I: characters compare by their lower-case form
UpperSet == {UPPERCASE[i] : i \in 1..Len(UPPERCASE)}
LowerOf == [c \in UpperSet |-> LOWERCASE[CHOOSE i \in 1..Len(UPPERCASE) : UPPERCASE[i] = c]]
Fold(c) == IF c \in UpperSet THEN LowerOf[c] ELSE c
FoldStr(s) == [i \in 1..Len(s) |-> Fold(s[i])]

\* the pattern's literal `w` matches at position i of s
At(s, i, w) == i >= 1 /\ i + Len(w) - 1 <= Len(s) /\ SubSeq(s, i, i + Len(w) - 1) = w

\* re.search of a literal, re.I
SearchI(w, s) ==
    LET f == FoldStr(s)
        g == FoldStr(w)
    IN  \E i \in 1..Len(f) : At(f, i, g)

Whitespace == {" ", "\n", "\t"}
Digits == {"0", "1", "2", "3", "4", "5", "6", "7", "8", "9"}

\* line 22: len(txt.split()), words being the runs of non-whitespace
wc(t) ==
    Cardinality({i \in 1..Len(t.text) :
                    /\ t.text[i] \notin Whitespace
                    /\ (i = 1 \/ t.text[i - 1] \in Whitespace)}) + t.pad

\* mutant of flag: the comparison is not strict
flag_NotStrict(t) == wc(t) <= MIN_MINUTES * WORDS_PER_MINUTE

\* line 22: wc/150 < 20, the quotient compared exactly
flag(t) == wc(t) < MIN_MINUTES * WORDS_PER_MINUTE

\* line 24: goal|objective
HasGoal(s) == SearchI(<<"g", "o", "a", "l">>, s) \/ SearchI(<<"o", "b", "j", "e", "c", "t", "i", "v", "e">>, s)

\* line 25: ancillary|supplement
HasAncillary(s) == SearchI(<<"a", "n", "c", "i", "l", "l", "a", "r", "y">>, s) \/ SearchI(<<"s", "u", "p", "p", "l", "e", "m", "e", "n", "t">>, s)

\* line 26: \d+ ?(mg|ml)|daily|weekly
HasDosage(s) ==
    LET f == FoldStr(s)
        Unit(i) == At(f, i, <<"m", "g">>) \/ At(f, i, <<"m", "l">>)
    IN  \/ \E i \in 1..Len(f) :
              /\ f[i] \in Digits
              /\ Unit(i + 1) \/ (At(f, i + 1, <<" ">>) /\ Unit(i + 2))
        \/ SearchI(<<"d", "a", "i", "l", "y">>, s)
        \/ SearchI(<<"w", "e", "e", "k", "l", "y">>, s)

\* line 27: verify.*(address|phone), `.` matching anything but a newline
HasVerification(s) ==
    LET f == FoldStr(s)
    IN  \E i \in 1..Len(f) :
            /\ At(f, i, <<"v", "e", "r", "i", "f", "y">>)
            /\ \E j \in (i + 6)..Len(f) :
                  /\ At(f, j, <<"a", "d", "d", "r", "e", "s", "s">>) \/ At(f, j, <<"p", "h", "o", "n", "e">>)
                  /\ \A k \in (i + 6)..(j - 1) : f[k] # "\n"

\* lines 23-27: one message for each pattern without a match, in this order
issues(t) ==
    LET s == Chars(t)
    IN  (IF HasGoal(s) THEN <<>> ELSE <<"Missing probing questions">>)
        \o (IF HasAncillary(s) THEN <<>> ELSE <<"No ancillary meds">>)
        \o (IF HasDosage(s) THEN <<>> ELSE <<"No dosage/treatment plan">>)
        \o (IF HasVerification(s) THEN <<>> ELSE <<"No address/phone verification">>)

\* the last character of the line that position i is on (i - 1 when i is at
\* a newline or past the end)
LineEnd(s, i) ==
    IF \E j \in i..Len(s) : s[j] = "\n"
    THEN (CHOOSE j \in i..Len(s) : s[j] = "\n" /\ \A k \in i..(j - 1) : s[k] # "\n") - 1
    ELSE Len(s)

\* the last "?" of s[a..b], 0 when there is none
LastQuestionMark(s, a, b) ==
    IF \E k \in a..b : s[k] = "?"
    THEN CHOOSE k \in a..b : s[k] = "?" /\ \A m \in (k + 1)..b : s[m] # "?"
    ELSE 0

PatientLabel == <<"P", "a", "t", "i", "e", "n", "t", ":", " ">>

\* Patient: (.*\?) matches at i: the label, re.I, then the greedy rest of the
\* line up to its last "?"
PatientMatchAt(s, i) ==
    /\ i + Len(PatientLabel) - 1 <= Len(s)
    /\ FoldStr(SubSeq(s, i, i + Len(PatientLabel) - 1)) = FoldStr(PatientLabel)
    /\ LastQuestionMark(s, i + Len(PatientLabel), LineEnd(s, i + Len(PatientLabel))) # 0

\* re.findall from position pos: leftmost match, its group, then on from the
\* end of the match
RECURSIVE findall(_, _)
findall(s, pos) ==
    LET found == {a \in pos..Len(s) : PatientMatchAt(s, a)}
    IN  IF found = {} THEN <<>>
        ELSE
         LET i == CHOOSE a \in found : \A b \in found : a <= b
             from == i + Len(PatientLabel)
             k == LastQuestionMark(s, from, LineEnd(s, from))
         IN  <<SubSeq(s, from, k)>> \o findall(s, k + 1)

\* line 28
questions(t) == findall(Chars(t), 1)

ProviderLabel == <<"P", "r", "o", "v", "i", "d", "e", "r", ":">>

\* str.split(sep): the parts between the occurrences of sep, left to right
RECURSIVE split(_, _)
split(s, sep) ==
    LET found == {a \in 1..Len(s) : At(s, a, sep)}
    IN  IF found = {} THEN <<s>>
        ELSE
         LET i == CHOOSE a \in found : \A b \in found : a <= b
         IN  <<SubSeq(s, 1, i - 1)>> \o split(SubSeq(s, i + Len(sep), Len(s)), sep)

\* mutant of LastPart: the part before the first label
LastPart_First(parts) == parts[1]

\* line 29: [-1]
LastPart(parts) == parts[Len(parts)]

\* line 29: re.search(re.escape(q), ..., re.I), a literal search
IsAnswered(q, t) == SearchI(q, LastPart(split(Chars(t), ProviderLabel)))

\* line 29
answered(t) == SelectSeq(questions(t), LAMBDA q : IsAnswered(q, t))

\* line 30
unanswered(t) ==
    LET Set(qs) == {qs[i] : i \in 1..Len(qs)}
    IN  Set(questions(t)) \ Set(answered(t))

\* line 31: (yell|argue|angry|hostile)
behavior(t) ==
    LET s == Chars(t)
    IN  SearchI(<<"y", "e", "l", "l">>, s) \/ SearchI(<<"a", "r", "g", "u", "e">>, s) \/ SearchI(<<"a", "n", "g", "r", "y">>, s) \/ SearchI(<<"h", "o", "s", "t", "i", "l", "e">>, s)

\* mutant of proceed: a behaviour flag also stops the report
proceed_AndCalm(t) == issues(t) = <<>> /\ ~behavior(t)

\* line 32
proceed(t) == issues(t) = <<>>

\* lines 22-32 for transcript t
Review(t) ==
    [done |-> TRUE, wc |-> wc(t), flag |-> flag(t), issues |-> issues(t),
     questions |-> questions(t), unanswered |-> unanswered(t),
     behavior |-> behavior(t), proceed |-> proceed(t)]

\* ------------------------------------------------------ specification
\* the service of main.py after a start with a complete environment
Init ==
    /\ PROCESSING_MEETING_IDS = {}
    /\ inflight = 0
    /\ bg = <<>>
    /\ running = 0
    /\ drive = EmptyBag
    /\ resp = NoResponse
    /\ escaped = FALSE
    /\ config_secret = ZOOM_SECRET_TOKEN
    /\ proc = "serving"
    /\ txt = NoTranscript
    /\ review = NotReviewed

Next ==
    \/ request_arrives
    \/ \E body \in Bodies : zoom_webhook(body)
    \/ \E i \in 1..MaxPending : task_start(i)
    \/ \E lookup_ok \in BOOLEAN : task_lookup(lookup_ok)
    \/ \E meeting_type \in MeetingTypes, host_email \in Emails :
          task_classify(meeting_type, host_email)
    \/ \E ok \in BOOLEAN : task_zoom_token(ok)
    \/ \E ok \in BOOLEAN, has_transcript \in BOOLEAN : task_recordings(ok, has_transcript)
    \/ \E ok \in BOOLEAN : task_download(ok)
    \/ \E outcome \in {"raises", "not_json", "parsed"}, entries \in EntryCounts,
          patient_name \in PatientNames : task_ai(outcome, entries, patient_name)
    \/ \E pdf_ok \in BOOLEAN : task_render(pdf_ok)
    \/ \E ok \in BOOLEAN : task_upload(ok)
    \/ task_finally

Spec == Init /\ [][Next]_vars

\* ------------------------------------------------------ start-up
\* lines 16-34 for ZOOM_SECRET_TOKEN: the module is imported, load_env_vars
\* reads the environment, and the process exits with status 1 when the value
\* is unset or empty
load_env_vars ==
    /\ proc = "starting"
    /\ proc' = IF ConfigLoads(config_secret) THEN "serving" ELSE "exited"
    /\ UNCHANGED <<PROCESSING_MEETING_IDS, inflight, bg, running, drive, resp,
                   escaped, config_secret, review_vars>>

\* a POST /webhook sent after exit(1): nothing answers it
request_refused(body) ==
    /\ proc = "exited"
    /\ resp' = [req |-> body, res |-> ConnectionRefused]
    /\ UNCHANGED <<PROCESSING_MEETING_IDS, inflight, bg, running, drive,
                   escaped, config_vars, review_vars>>

InitStartup ==
    /\ PROCESSING_MEETING_IDS = {}
    /\ inflight = 0
    /\ bg = <<>>
    /\ running = 0
    /\ drive = EmptyBag
    /\ resp = NoResponse
    /\ escaped = FALSE
    /\ config_secret \in SecretEnvs
    /\ proc = "starting"
    /\ txt = NoTranscript
    /\ review = NotReviewed

NextStartup ==
    \/ load_env_vars
    \/ \E body \in Bodies : request_refused(body)
    \/ Next

SpecStartup == InitStartup /\ [][NextStartup]_vars

\* ------------------------------------------------------ src/Main.py
\* lines 13-32 of review_consult on the transcript of line 21
review_consult ==
    /\ ~review.done
    /\ review' = Review(txt)
    /\ UNCHANGED <<PROCESSING_MEETING_IDS, inflight, bg, running, drive, resp,
                   escaped, config_vars, txt>>

InitReview ==
    /\ PROCESSING_MEETING_IDS = {}
    /\ inflight = 0
    /\ bg = <<>>
    /\ running = 0
    /\ drive = EmptyBag
    /\ resp = NoResponse
    /\ escaped = FALSE
    /\ config_secret = ZOOM_SECRET_TOKEN
    /\ proc = "serving"
    /\ txt \in Transcripts
    /\ review = NotReviewed

NextReview == review_consult

SpecReview == InitReview /\ [][NextReview]_vars


\* ------------------------------------------------------------ claims
\* a step of zoom_webhook past its await: the only step that ends a request
HandlerStep == inflight' = inflight - 1

\* a step that ends a background task
TaskEnds == running # 0 /\ running' = 0

\* the tasks of bg that carry uuid u
TasksFor(u) == {i \in 1..Len(bg) : bg[i].body_uuid = u}

\* a recording.transcript_completed notification for uuid u
Notification(u) == Body("object", EV_TRANSCRIPT, u, <<>>, TRUE)

\* files of the folder that upload_to_drive wrote for uuid u, with multiplicity
UploadsFor(u) ==
    LET names == {f \in BagToSet(drive) : Contains(f, Sep \o u \o Suffix)}
        Sum[S \in SUBSET names] ==
            IF S = {} THEN 0
            ELSE LET f == CHOOSE g \in S : TRUE
                 IN  CopiesIn(f, drive) + Sum[S \ {f}]
    IN  Sum[names]

\* C1 (as claimed): upload_to_drive is performed at most once for a uuid, so
\* the folder never holds two reports of the same meeting.
C1_OneReportPerUuid ==
    \A u \in UuidVals : Truthy(u) => UploadsFor(u) <= 1

\* C2: a transcript notification whose uuid is in PROCESSING_MEETING_IDS is
\* answered already_processing, enqueues no task and leaves the set unchanged.
C2_DuplicateRejected ==
    [][(/\ HandlerStep
        /\ resp'.req.kind = "object"
        /\ resp'.req.event = EV_TRANSCRIPT
        /\ resp'.req.uuid \in PROCESSING_MEETING_IDS)
       => (/\ resp'.res.status = 200
           /\ resp'.res.key = "status"
           /\ resp'.res.val = "already_processing"
           /\ bg' = bg
           /\ PROCESSING_MEETING_IDS' = PROCESSING_MEETING_IDS)]_vars

\* C2 witness: the last request was a duplicate of an outstanding uuid and was rejected
C2_Witness ==
    /\ resp.res.val = "already_processing"
    /\ resp.req.uuid \in PROCESSING_MEETING_IDS
    /\ TasksFor(resp.req.uuid) # {}

\* C3: when a task ends, on any exit path, its uuid is no longer in the set
\* and a notification for it is accepted again; with no task outstanding the
\* set is empty.
C3_GuaranteedCleanup ==
    /\ [](bg = <<>> => PROCESSING_MEETING_IDS = {})
    /\ [][TaskEnds =>
            /\ Cur.body_uuid \notin PROCESSING_MEETING_IDS'
            /\ Accepts(Notification(Cur.body_uuid), PROCESSING_MEETING_IDS')]_vars

\* C3 witness: the uuid of the last accepted notification was added to the
\* set, its task has ended, and the set is empty again
C3_Witness ==
    /\ resp.res.val = "processing_started"
    /\ Truthy(resp.req.uuid)
    /\ bg = <<>>
    /\ PROCESSING_MEETING_IDS = {}

\* C4: in every run the folder lookup is the first step, before any AI call,
\* and a run whose lookup reported an existing report made no other step.
C4_LookupBeforeAi ==
    \A i \in 1..Len(bg) :
        /\ (\E k \in 1..Len(bg[i].steps) : bg[i].steps[k] # "lookup")
              => bg[i].steps[1] = "lookup"
        /\ bg[i].ret = "already_processed" => bg[i].steps = <<"lookup">>

\* C4 witness: a run short-circuited by the lookup
C4_Witness ==
    \E i \in 1..Len(bg) :
        bg[i].ret = "already_processed" /\ bg[i].pc = "finally"


\* C5: an accepted transcript notification is answered 202 processing_started
\* by a handler step that only tests and adds to the set and enqueues the
\* task unstarted; no handler step performs a pipeline step, so every step of
\* the task comes after the response.
C5_ResponseBeforePipeline ==
    [][HandlerStep =>
        /\ drive' = drive
        /\ \A i \in 1..Len(bg) : bg'[i] = bg[i]
        /\ Accepts(resp'.req, PROCESSING_MEETING_IDS) =>
              /\ resp'.res.status = 202
              /\ resp'.res.key = "status"
              /\ resp'.res.val = "processing_started"
              /\ Len(bg') = Len(bg) + 1
              /\ bg'[Len(bg')].body_uuid = resp'.req.uuid
              /\ bg'[Len(bg')].pc = "pending"
              /\ bg'[Len(bg')].steps = <<>>
              /\ PROCESSING_MEETING_IDS \subseteq PROCESSING_MEETING_IDS'
              /\ PROCESSING_MEETING_IDS' \subseteq
                    PROCESSING_MEETING_IDS \cup {resp'.req.uuid}]_vars

\* C5 witness: the task of the notification answered last has since made
\* pipeline steps up to the upload
C5_Witness ==
    /\ resp.res.val = "processing_started"
    /\ \E i \in 1..Len(bg) :
          /\ bg[i].body_uuid = resp.req.uuid
          /\ bg[i].ret = "uploaded"

\* C6: for every non-empty uuid at most one task is outstanding, and the uuid
\* is in PROCESSING_MEETING_IDS exactly while one is.
C6_OneTaskPerUuid ==
    /\ \A u \in UuidVals :
          Truthy(u) => /\ Cardinality(TasksFor(u)) <= 1
                       /\ u \in PROCESSING_MEETING_IDS <=> TasksFor(u) # {}
    /\ \A u \in PROCESSING_MEETING_IDS : Truthy(u)

\* C6 witness: two handlers were in flight for one uuid; one was accepted,
\* the other rejected, further requests are still in flight
C6_Witness ==
    /\ resp.res.val = "already_processing"
    /\ Cardinality(TasksFor(resp.req.uuid)) = 1
    /\ Cardinality(PROCESSING_MEETING_IDS) = 2
    /\ inflight > 0

\* a malformed content request: a body that is no JSON (object), or a
\* transcript notification without a uuid
Malformed(body) ==
    \/ body.kind \in {"invalid_json", "non_dict"}
    \/ body.kind = "object" /\ body.event = EV_TRANSCRIPT /\ body.uuid = None

\* C7 (as claimed): a malformed content request is answered HTTP 400 and
\* enqueues no background task.
C7_MalformedRejected ==
    [][(HandlerStep /\ Malformed(resp'.req))
          => (resp'.res.status = 400 /\ bg' = bg)]_vars

\* a request whose body is a JSON object with an event other than the two handled
OtherEvent(body) ==
    body.kind = "object" /\ body.event \notin {EV_VALIDATION, EV_TRANSCRIPT}

\* C8 (as claimed): such a request is answered 200 with the message "ignored".
C8_IgnoredMessageAsClaimed ==
    [][(HandlerStep /\ OtherEvent(resp'.req))
          => (/\ resp'.res.status = 200
              /\ resp'.res.key = "message"
              /\ resp'.res.val = "ignored"
              /\ bg' = bg
              /\ PROCESSING_MEETING_IDS' = PROCESSING_MEETING_IDS)]_vars

\* C8 (amended): such a request is answered 200 with the message
\* "Event ignored", enqueues no task and leaves the set unchanged.
C8_OtherEventIgnored ==
    [][(HandlerStep /\ OtherEvent(resp'.req))
          => (/\ resp'.res.status = 200
              /\ resp'.res.key = "message"
              /\ resp'.res.val = "Event ignored"
              /\ bg' = bg
              /\ PROCESSING_MEETING_IDS' = PROCESSING_MEETING_IDS)]_vars

\* C8 witness: another event was answered while a task was outstanding
C8_Witness ==
    /\ resp.req.event = EV_OTHER
    /\ resp.res.key = "message"
    /\ bg # <<>>

\* C9 (as claimed): a transcript notification whose recording has no
\* TRANSCRIPT file is answered with an "ignored" status, enqueues no task and
\* leaves the set unchanged.
C9_NoTranscriptIgnored ==
    [][(/\ HandlerStep
        /\ resp'.req.kind = "object"
        /\ resp'.req.event = EV_TRANSCRIPT
        /\ ~resp'.req.has_transcript)
          => (/\ resp'.res.val \in {"ignored", "Event ignored"}
              /\ bg' = bg
              /\ PROCESSING_MEETING_IDS' = PROCESSING_MEETING_IDS)]_vars

\* C10: a failure at any pipeline step stays inside the task: the exception
\* does not leave process_transcript_task, no step of a task changes the
\* response returned, and when the failed task ends the event loop is free
\* and a notification for the same uuid is accepted.
C10_ErrorsTerminalForTask ==
    /\ [](~escaped)
    /\ [][running # 0 => resp' = resp]_vars
    /\ [][(TaskEnds /\ Cur.exc # "")
            => /\ ~escaped'
               /\ Len(bg') = Len(bg) - 1
               /\ Cur.entity_id \notin PROCESSING_MEETING_IDS'
               /\ Accepts(Notification(Cur.entity_id), PROCESSING_MEETING_IDS')]_vars

\* C10 witness: a task whose upload failed is in its finally clause, its
\* uuid still in the set
C10_Witness ==
    /\ running # 0
    /\ Cur.pc = "finally"
    /\ Cur.exc = "HTTPError: upload"
    /\ Cur.entity_id \in PROCESSING_MEETING_IDS


\* the run of task t has handed something to a delivery collaborator
Delivered(t) == \E k \in 1..Len(t.steps) : t.steps[k] \in {"upload", "email"}

\* t made step name
Made(t, name) == \E k \in 1..Len(t.steps) : t.steps[k] = name

\* C11 (as claimed): a run whose AI call raised, or answered with content
\* that does not parse, still uploads or mails a failure report before it ends.
C11_AiFailureReported ==
    \A i \in 1..Len(bg) :
        (bg[i].pc = "finally" /\ bg[i].exc \in {"OpenAIError", "JSONDecodeError"})
            => Delivered(bg[i])

\* the steps of a run that reached the upload
FullRun == <<"lookup", "zoom_token", "recordings", "download", "ai", "render", "upload">>

Handshake(body) == body.kind = "object" /\ body.event = EV_VALIDATION

\* C13: a handshake is answered 200 with the plainToken received and the
\* hex HMAC-SHA256 of it keyed by the shared secret, whatever the state of
\* the set, the tasks and the folder; it enqueues nothing and leaves the set
\* unchanged.
C13_HandshakeDeterministic ==
    [][(HandlerStep /\ Handshake(resp'.req))
          => (/\ resp'.res.status = 200
              /\ resp'.res.plainToken = resp'.req.plainToken
              /\ resp'.res.encryptedToken =
                    <<"hmac-sha256-hex", ZOOM_SECRET_TOKEN, resp'.req.plainToken>>
              /\ bg' = bg
              /\ PROCESSING_MEETING_IDS' = PROCESSING_MEETING_IDS)]_vars

\* C13 witness: a handshake with a non-empty token answered while a task is
\* outstanding and its uuid is in the set
C13_Witness ==
    /\ Handshake(resp.req)
    /\ resp.req.plainToken # <<>>
    /\ resp.res.status = 200
    /\ PROCESSING_MEETING_IDS # {}

\* C14 (as claimed): a handshake sent while the shared secret is unset or
\* empty is answered HTTP 500.
C14_UnsetSecretAnswered500 ==
    (Handshake(resp.req) /\ ~Truthy(config_secret)) => resp.res.status = 500

\* C14 (amended): with the secret unset or empty the process never serves
\* and no request gets an HTTP answer; a handshake answered 200 carries a
\* token keyed by a non-empty secret.
C14_NoServiceWithoutSecret ==
    /\ ~Truthy(config_secret) => (proc # "serving" /\ resp.res.status = 0)
    /\ (Handshake(resp.req) /\ resp.res.status = 200)
          => /\ Truthy(config_secret)
             /\ resp.res.encryptedToken[2] = config_secret

\* C14 witness: a handshake was sent to a process that exited for want of
\* the secret
C14_Witness ==
    /\ proc = "exited"
    /\ ~Truthy(config_secret)
    /\ Handshake(resp.req)
    /\ resp.res = ConnectionRefused


\* the files a step adds to the folder
NewFiles == {f \in BagToSet(drive') : CopiesIn(f, drive') > CopiesIn(f, drive)}

\* C17: every uploaded report's filename contains the uuid of the
\* notification whose run uploaded it, so the Drive query for that uuid finds
\* it; once a report for a uuid is in the folder, a run for that uuid whose
\* lookup is answered returns as already processed straight after the
\* lookup, before any download, AI call or upload.
C17_UuidInFilenameShortCircuits ==
    /\ [][drive' # drive =>
            /\ running # 0
            /\ Truthy(Cur.entity_id)
            /\ Cur.entity_id = Cur.body_uuid
            /\ NewFiles # {}
            /\ \A f \in NewFiles : Contains(f, Str(Cur.entity_id))
            /\ is_already_processed(Cur.entity_id, drive', TRUE)]_vars
    /\ [][(/\ running # 0
           /\ Cur.pc = "lookup"
           /\ bg'[running].lookup = "ok"
           /\ UploadsFor(Cur.entity_id) >= 1)
            => /\ bg'[running].pc = "finally"
               /\ bg'[running].ret = "already_processed"
               /\ bg'[running].steps = <<"lookup">>
               /\ drive' = drive]_vars
    /\ [](\A i \in 1..Len(bg) :
            bg[i].ret = "already_processed"
                => bg[i].pc = "finally" /\ bg[i].steps = <<"lookup">>)

\* C17 witness: a run short-circuited by the report an earlier run uploaded
C17_Witness ==
    /\ running # 0
    /\ Cur.lookup = "ok"
    /\ Cur.ret = "already_processed"
    /\ UploadsFor(Cur.entity_id) >= 1

\* C18: when the lookup itself fails, the run goes on to the next step as a
\* run that found no report does, whatever the folder holds, and is never
\* ended as already processed.
C18_LookupFailsOpen ==
    /\ [][(/\ running # 0
           /\ Cur.pc = "lookup"
           /\ bg'[running].lookup = "failed")
            => /\ bg'[running] = [Cur EXCEPT !.pc = "classify",
                                             !.steps = <<"lookup">>,
                                             !.lookup = "failed"]
               /\ drive' = drive]_vars
    /\ [](\A i \in 1..Len(bg) :
            bg[i].lookup = "failed" => bg[i].ret # "already_processed")

\* C18 witness: a run whose lookup failed went through every step and
\* uploaded a second report for its uuid
C18_Witness ==
    /\ running # 0
    /\ Cur.lookup = "failed"
    /\ Cur.steps = FullRun
    /\ Cur.ret = "uploaded"
    /\ UploadsFor(Cur.entity_id) = 2

\* C19: the render step passes only with at least 15 framework_analysis
\* entries and the folder grows only after a render step that passed; with
\* fewer entries the run ends in KeyError with nothing uploaded and nothing
\* sent, and at its end the uuid is out of the set and the folder is as the
\* run found it, so a redelivered notification is accepted and its lookup
\* finds what this run's lookup found.
C19_NeedsFifteenEntries ==
    /\ [][(running # 0 /\ Cur.pc = "render")
            => /\ (Cur.entries < NeedEntries)
                     => /\ bg'[running].pc = "finally"
                        /\ bg'[running].exc = "KeyError"
               /\ (bg'[running].pc = "upload") => Cur.entries >= NeedEntries
               /\ drive' = drive]_vars
    /\ [][drive' # drive =>
            /\ running # 0
            /\ Cur.pc = "upload"
            /\ Cur.steps[Len(Cur.steps)] = "render"]_vars
    /\ [](\A i \in 1..Len(bg) :
            /\ bg[i].pc = "upload" => Made(bg[i], "render") /\ bg[i].exc = ""
            /\ bg[i].exc = "KeyError"
                 => /\ bg[i].pc = "finally"
                    /\ ~Delivered(bg[i])
                    /\ Made(bg[i], "download") /\ Made(bg[i], "ai"))
    /\ [][(TaskEnds /\ Cur.exc = "KeyError")
            => /\ drive' = drive
               /\ Cur.entity_id \notin PROCESSING_MEETING_IDS'
               /\ TasksFor(Cur.entity_id) = {running}
               /\ Accepts(Notification(Cur.entity_id), PROCESSING_MEETING_IDS')]_vars

\* C19 witness: a run that downloaded, called the AI, and failed to fill the
\* template
C19_Witness ==
    /\ running # 0
    /\ Cur.pc = "finally"
    /\ Cur.exc = "KeyError"
    /\ Cur.steps = <<"lookup", "zoom_token", "recordings", "download", "ai", "render">>


\* C15: each of the four patterns without a match adds exactly one issue, so
\* no match gives 4 issues and four matches give none, and Proceed is Yes
\* exactly when there is no issue, whatever the duration flag, the behaviour
\* flag and the unanswered questions are.
C15_IssuesDecideProceed ==
    review.done =>
        LET s == Chars(txt)
            Miss(found) == IF found THEN 0 ELSE 1
        IN  /\ Len(review.issues) = Miss(HasGoal(s)) + Miss(HasAncillary(s))
                                      + Miss(HasDosage(s)) + Miss(HasVerification(s))
            /\ \A a, b \in 1..Len(review.issues) :
                  review.issues[a] = review.issues[b] => a = b
            /\ Len(review.issues) = 4 => ~review.proceed
            /\ review.proceed <=> review.issues = <<>>

\* C15 witness: Proceed: Yes for a short transcript with a behaviour flag and
\* an unanswered question
C15_Witness ==
    /\ review.done
    /\ review.proceed
    /\ review.flag
    /\ review.behavior
    /\ review.unanswered # {}

\* C16: the duration flag is set exactly when the transcript has fewer than
\* 3000 words; at exactly 3000 words it is not set.
C16_DurationFlagStrict ==
    review.done =>
        LET s == txt.text
            words == txt.pad + Cardinality({i \in 1..Len(s) :
                        /\ s[i] \notin Whitespace
                        /\ (i = Len(s) \/ s[i + 1] \in Whitespace)})
        IN  /\ review.wc = words
            /\ review.flag <=> words < 3000

\* C16 witness: a transcript of exactly 3000 words, not flagged
C16_Witness ==
    /\ review.done
    /\ review.wc = 3000
    /\ txt.text # <<>>
    /\ ~review.flag

\* the part of s after its last "Provider:" label, all of s when it has none
AfterLastProvider(s) ==
    LET marks == {i \in 1..Len(s) : At(s, i, ProviderLabel)}
    IN  IF marks = {} THEN s
        ELSE SubSeq(s, (CHOOSE i \in marks : \A j \in marks : j <= i) + Len(ProviderLabel),
                    Len(s))

\* C20: a patient question is unanswered exactly when its text does not
\* occur, letter case aside, after the last "Provider:" label; a question
\* that starts after the last label, and every question of a transcript
\* without a label, is not unanswered; the set is a function of the text.
C20_UnansweredIsAbsentFromTail ==
    review.done =>
        LET s == Chars(txt)
            tail == AfterLastProvider(s)
            asked == {review.questions[i] : i \in 1..Len(review.questions)}
            from(i) == i + Len(PatientLabel)
        IN  /\ review.unanswered \subseteq asked
            /\ \A q \in asked : q \in review.unanswered <=> ~SearchI(q, tail)
            /\ (~\E i \in 1..Len(s) : At(s, i, ProviderLabel)) => review.unanswered = {}
            /\ \A i \in (Len(s) - Len(tail) + 1)..Len(s) :
                  PatientMatchAt(s, i)
                      => SubSeq(s, from(i), LastQuestionMark(s, from(i), LineEnd(s, from(i))))
                            \notin review.unanswered
            /\ review.unanswered = unanswered(txt)

\* C20 witness: two questions and a label, one question repeated after the
\* label in another letter case, the other not
C20_Witness ==
    /\ review.done
    /\ Len(review.questions) = 2
    /\ Cardinality(review.unanswered) = 1
    /\ \E i \in 1..Len(txt.text) : At(txt.text, i, ProviderLabel)
    /\ \E q \in {review.questions[i] : i \in 1..2} :
          /\ q \notin review.unanswered
          /\ ~\E i \in 1..Len(txt.text) : At(AfterLastProvider(txt.text), i, q)

====
